---- MODULE Spec2Model ----
\* Model of the clinic server's visit write path, embedding provider
\* lifecycle, text canonicalisation and similarity query path.
EXTENDS Integers, Sequences, FiniteSets, TLC

\* ---------------------------------------------------------------------
\* Values of Python dictionaries and strings
\* ---------------------------------------------------------------------
\* A text is a sequence of tokens; the string it denotes is their
\* concatenation.  A dictionary key that is missing carries Absent, a key
\* bound to Python's None carries NoneVal.
Absent == "<absent>"
NoneVal == "<None>"

\* Python truthiness of a str/None value (missing key reads as None).
Truthy(x) == x # Absent /\ x # NoneVal /\ x # ""

\* f-string rendering of a value: None prints as "None", "" prints nothing.
Fmt(x) == IF x = "" THEN <<>> ELSE IF x = NoneVal THEN <<"None">> ELSE <<x>>

\* dict.get(key, '') on the vitals sub-dictionary.
GetOrEmpty(x) == IF x = Absent THEN "" ELSE x

RECURSIVE Join(_)
\* ". ".join(filter(None, text_parts)); every part is a non-empty text.
Join(parts) ==
    IF parts = <<>> THEN <<>>
    ELSE IF Len(parts) = 1 THEN Head(parts)
    ELSE Head(parts) \o <<". ">> \o Join(Tail(parts))

Part(label, x) == <<label>> \o Fmt(x) \o <<"; ">>

Opt(cond, part) == IF cond THEN <<part>> ELSE <<>>

\* A variant that also renders the prescribed medications.
create_clinical_text_with_meds(v) ==
    Join(  Opt(v.gender # Absent, Part("Gender: ", v.gender))
        \o Opt(v.age # Absent, Part("Age: ", v.age))
        \o (IF v.hasVitals
            THEN << Part("Blood pressure: ", GetOrEmpty(v.bloodPressure)),
                    Part("Oxygen level: ", GetOrEmpty(v.oxygen)),
                    Part("Weight: ", GetOrEmpty(v.weight)) >>
            ELSE <<>>)
        \o Opt(Truthy(v.clinicalTests), Part("Clinical tests: ", v.clinicalTests))
        \o Opt(Truthy(v.doctorNoticed), Part("Doctor observations: ", v.doctorNoticed))
        \o Opt(Truthy(v.prescribedMedications),
               Part("Prescribed medications: ", v.prescribedMedications))
        \o Opt(v.hasVitals /\ v.hasDidRecover,
               Part("Patient status: ",
                    IF v.didRecover THEN "recovered" ELSE "in treatment")) )

\* EmbeddingService.create_clinical_text
create_clinical_text(v) ==
    Join(  Opt(v.gender # Absent, Part("Gender: ", v.gender))
        \o Opt(v.age # Absent, Part("Age: ", v.age))
        \o (IF v.hasVitals
            THEN << Part("Blood pressure: ", GetOrEmpty(v.bloodPressure)),
                    Part("Oxygen level: ", GetOrEmpty(v.oxygen)),
                    Part("Weight: ", GetOrEmpty(v.weight)) >>
            ELSE <<>>)
        \o Opt(Truthy(v.clinicalTests), Part("Clinical tests: ", v.clinicalTests))
        \o Opt(Truthy(v.doctorNoticed), Part("Doctor observations: ", v.doctorNoticed))
        \o Opt(v.hasVitals /\ v.hasDidRecover,
               Part("Patient status: ",
                    IF v.didRecover THEN "recovered" ELSE "in treatment")) )

\* The patient_data argument: given is FALSE for None (or an empty dict).
NoPatientData == [given |-> FALSE, hasAge |-> FALSE, age |-> 0, gender |-> Absent]

AgeGroup(age) ==
    IF age < 18 THEN "pediatric" ELSE IF age < 65 THEN "adult" ELSE "elderly"

\* EmbeddingService.create_clinical_text_with_demographics
create_clinical_text_with_demographics(v, p) ==
    LET clinical_text == create_clinical_text(v)
    IN Join(  Opt(p.given /\ p.hasAge /\ p.age # 0,
                  <<"Age group: ", AgeGroup(p.age)>>)
           \o Opt(p.given /\ Truthy(p.gender), Part("Gender: ", p.gender))
           \o Opt(clinical_text # <<>>, clinical_text) )

\* The combined_text that generate_visit_embedding hands to embed_text.
combined_text(v) ==
    LET clinical_text == create_clinical_text(v)
        demographics_text == create_clinical_text_with_demographics(v, NoPatientData)
    IN <<"Age and other patient information: ">> \o demographics_text \o <<". ">>
       \o <<"Patient characteristics include: ">> \o demographics_text \o <<". ">>
       \o clinical_text

\* ---------------------------------------------------------------------
\* Bounds and input domains
\* ---------------------------------------------------------------------
MaxReqs == 2
Requests == 1..MaxReqs

Doctors == {"doc123", "doc456"}
Medications == {NoneVal, "Iron supplement"}

\* Vectors an embed call can return (all of the provider's dimension).
Vectors == {<<1, 0>>, <<1, 1>>}
NoEmbedding == <<>>

\* D: the length of the vector embed_text returns (the hidden size of the
\* one model both the server and the seeding script load).
EmbeddingDimension == Len(CHOOSE v \in Vectors : TRUE)

\* The request bodies (VisitCreate) the handlers are driven with.
FormA ==
    [ patientPhone |-> "555-5678", patientAge |-> 45, patientGender |-> "Male",
      bloodPressure |-> "120/80", oxygen |-> "98%", weight |-> "75kg",
      didRecover |-> FALSE, clinicalTests |-> NoneVal,
      doctorNoticed |-> "fatigue", prescribedMedications |-> "Iron supplement" ]
FormB ==
    [ patientPhone |-> "555-9876", patientAge |-> 70, patientGender |-> "Female",
      bloodPressure |-> "", oxygen |-> "99%", weight |-> "62kg",
      didRecover |-> TRUE, clinicalTests |-> "X-ray clear",
      doctorNoticed |-> NoneVal, prescribedMedications |-> "Iron supplement" ]
VisitForms ==
    { [FormA EXCEPT !.prescribedMedications = m] : m \in Medications } \cup {FormB}

\* The create_visit calls made: who sends which body.
VisitCalls ==
    { <<"doc123", f>> : f \in VisitForms \ {FormB} } \cup { <<"doc456", FormB>> }

NoForm ==
    [ patientPhone |-> "", patientAge |-> 0, patientGender |-> "",
      bloodPressure |-> "", oxygen |-> "", weight |-> "", didRecover |-> FALSE,
      clinicalTests |-> NoneVal, doctorNoticed |-> NoneVal,
      prescribedMedications |-> NoneVal ]

\* visit_dict as built by create_visit: no gender/age keys, full vitals.
visit_dict(f) ==
    [ gender |-> Absent, age |-> Absent, hasVitals |-> TRUE,
      bloodPressure |-> f.bloodPressure, oxygen |-> f.oxygen,
      weight |-> f.weight, hasDidRecover |-> TRUE, didRecover |-> f.didRecover,
      clinicalTests |-> f.clinicalTests, doctorNoticed |-> f.doctorNoticed,
      prescribedMedications |-> f.prescribedMedications ]

\* ---------------------------------------------------------------------
\* State
\* ---------------------------------------------------------------------
VARIABLES
    phase,      \* lifespan: "boot" until startup finished, then "serving"
    indexes,    \* create_indexes succeeded: patients.phone is unique
    provider,   \* embedding_service: tokenizer and model are loaded
    patients,   \* db.patients in insertion order
    visits,     \* db.visits in insertion order
    doctors,    \* db.doctors: totalPatients and isBlocked per doctor
    reqs,       \* the HTTP requests: position and locals of each handler
    seed,       \* the seeding script: position and locals of its run
    canon,      \* a call of the text canonicaliser: its input and results
    rank,       \* a call of find_similar_visits: its arguments and result
    admins      \* db.admins in insertion order

vars == <<phase, indexes, provider, patients, visits, doctors, reqs, seed, canon,
          rank, admins>>

\* No response body was built.
NoBody == [response |-> <<>>, similar_cases |-> <<>>, query |-> ""]

IdleReq ==
    [ kind |-> "idle", pc |-> "idle", doctor |-> "", form |-> NoForm,
      message |-> "", patientId |-> 0, visitId |-> 0, embedding |-> NoEmbedding,
      text |-> <<>>, embedStep |-> "none", inserted |-> FALSE,
      corpus |-> <<>>, cases |-> <<>>, body |-> NoBody, result |-> "none",
      caller |-> "", phone |-> "", admin_count |-> 0, isBlocked |-> FALSE ]

\* seed_data.py is not running.
SeedOff ==
    [ pc |-> "off", runs |-> 0, tokenizer |-> FALSE, model |-> FALSE,
      patientId |-> 0, visitId |-> 0, embedding |-> NoEmbedding,
      embedStep |-> "none" ]

EmptyVisit ==
    [ gender |-> Absent, age |-> Absent, hasVitals |-> FALSE,
      bloodPressure |-> Absent, oxygen |-> Absent, weight |-> Absent,
      hasDidRecover |-> FALSE, didRecover |-> FALSE,
      clinicalTests |-> Absent, doctorNoticed |-> Absent,
      prescribedMedications |-> Absent ]

\* A visit document as handed to generate_visit_embedding: the clinical
\* fields (data) beside the record's identifier and timestamps.
NoDocument == [id |-> 0, date |-> "", data |-> EmptyVisit]

\* No canonicaliser call is being followed.
CanonIdle ==
    [ pc |-> "idle", visit |-> EmptyVisit, otherMedications |-> Absent,
      clinical |-> <<>>, combined |-> <<>>, otherCombined |-> <<>>,
      patient |-> NoPatientData, demographics |-> <<>>,
      document |-> NoDocument, repeated |-> <<>> ]

\* No call of find_similar_visits is being followed.
RankIdle ==
    [ pc |-> "idle", query |-> <<>>, stored |-> <<>>, top_k |-> 0,
      num |-> 0, den |-> 1, result |-> <<>> ]

Init ==
    /\ phase = "boot"
    /\ indexes = FALSE
    /\ provider = [tokenizer |-> FALSE, model |-> FALSE]
    /\ patients = <<>>
    /\ visits = <<>>
    /\ doctors = [d \in Doctors |-> [totalPatients |-> 0, isBlocked |-> FALSE]]
    /\ reqs = [r \in Requests |-> IdleReq]
    /\ seed = SeedOff
    /\ canon = CanonIdle
    /\ rank = RankIdle
    /\ admins = <<>>

\* ---------------------------------------------------------------------
\* Provider lifecycle
\* ---------------------------------------------------------------------
\* EmbeddingService.initialize: the tokenizer is loaded, then the model,
\* then the model is moved to the device; a raise at any of the three
\* points leaves what was assigned before it (a raise at the last point
\* leaves both assigned, as a successful return does).
InitializeOutcomes ==
    { [tokenizer |-> FALSE, model |-> FALSE],
      [tokenizer |-> TRUE,  model |-> FALSE],
      [tokenizer |-> TRUE,  model |-> TRUE] }

\* lifespan: connect_to_mongo creates the indexes (an error there is
\* logged and swallowed), then initialize() is tried once; a raise is
\* logged and startup continues.
Lifespan ==
    /\ phase = "boot"
    /\ indexes' \in BOOLEAN
    /\ \E o \in InitializeOutcomes : provider' = o
    /\ phase' = "serving"
    /\ UNCHANGED <<patients, visits, doctors, reqs, seed, canon, rank, admins>>

\* embed_text's guard: "Model not initialized".
Uninitialized(p) == ~p.model \/ ~p.tokenizer

\* ---------------------------------------------------------------------
\* Store helpers
\* ---------------------------------------------------------------------
PatientsByPhone(phone) == LET T(p) == p.phone = phone IN SelectSeq(patients, T)

\* A variant of the patch that selects the documents by patient.
PatchEmbeddingByPatient(vs, id, vec) ==
    LET pid == (CHOOSE i \in 1..Len(vs) : vs[i].id = id)
    IN [i \in 1..Len(vs) |->
          IF vs[i].patientId = vs[pid].patientId
          THEN [vs[i] EXCEPT !.embedding = vec] ELSE vs[i]]

\* A variant of the patch that stores the vector without its last component.
PatchEmbeddingTruncated(vs, id, vec) ==
    [i \in 1..Len(vs) |->
        IF vs[i].id = id
        THEN [vs[i] EXCEPT !.embedding = SubSeq(vec, 1, Len(vec) - 1)]
        ELSE vs[i]]

\* A variant of the patch that also fills every visit lacking an embedding.
PatchEmbeddingBackfill(vs, id, vec) ==
    [i \in 1..Len(vs) |->
        IF vs[i].id = id \/ vs[i].embedding = NoEmbedding
        THEN [vs[i] EXCEPT !.embedding = vec] ELSE vs[i]]

\* db.visits.update_one({"_id": visit_id}, {"$set": {"embedding": embedding}})
PatchEmbedding(vs, id, vec) ==
    [i \in 1..Len(vs) |->
        IF vs[i].id = id THEN [vs[i] EXCEPT !.embedding = vec] ELSE vs[i]]

\* create_visit: "if visit_data.prescribedMedications:"
EmbeddingRequested(f) == Truthy(f.prescribedMedications)

Set(r, rec) == reqs' = [reqs EXCEPT ![r] = rec]

\* Requests are numbered in arrival order.
Arrives(r) ==
    /\ phase = "serving"
    /\ reqs[r].kind = "idle"
    /\ r > 1 => reqs[r - 1].kind # "idle"

\* The handler raised: create_visit's outer except answers 500.
Fail500(r) == Set(r, [reqs[r] EXCEPT !.pc = "done", !.result = "error500"])

\* An exception outside any try: the framework answers 500.
Unhandled500(r, rec) == Set(r, [rec EXCEPT !.pc = "done", !.result = "error500"])

\* get_current_user, role "doctor": doctor.get("isBlocked", False) of the
\* record of the token's phone.
AccountBlocked(d) == doctors[d].isBlocked

\* A variant that lets every token through.
DoctorRejectedNever(d) == FALSE

\* get_current_doctor raises 403 "Account is blocked" before the handler
\* runs.
DoctorRejected(d) == AccountBlocked(d)

Forbidden403(r, rec) == Set(r, [rec EXCEPT !.pc = "done", !.result = "error403"])

\* ---------------------------------------------------------------------
\* create_visit
\* ---------------------------------------------------------------------
StartVisit(r) ==
    /\ Arrives(r)
    /\ \E c \in VisitCalls :
          LET call == [IdleReq EXCEPT !.kind = "visit", !.doctor = c[1],
                                      !.form = c[2]]
          IN IF DoctorRejected(c[1]) THEN Forbidden403(r, call)
             ELSE Set(r, [call EXCEPT !.pc = "find_patient"])
    /\ UNCHANGED <<phase, indexes, provider, patients, visits, doctors, seed, canon, rank, admins>>

\* A variant that brings a found patient up to date with the request.
VisitFindPatientUpdating(r) ==
    /\ reqs[r].pc = "find_patient"
    /\ LET found == PatientsByPhone(reqs[r].form.patientPhone)
       IN IF found = <<>>
          THEN /\ Set(r, [reqs[r] EXCEPT !.pc = "insert_patient"])
               /\ UNCHANGED patients
          ELSE /\ Set(r, [reqs[r] EXCEPT !.pc = "insert_visit",
                                         !.patientId = found[1].id])
               /\ patients' = [i \in 1..Len(patients) |->
                     IF patients[i].id = found[1].id
                     THEN [patients[i] EXCEPT !.age = reqs[r].form.patientAge,
                                              !.gender = reqs[r].form.patientGender]
                     ELSE patients[i]]
    /\ UNCHANGED <<phase, indexes, provider, visits, doctors, seed, canon, rank, admins>>

\* patient = await db.patients.find_one({"phone": ...})
VisitFindPatient(r) ==
    /\ reqs[r].pc = "find_patient"
    /\ \/ Fail500(r)
       \/ LET found == PatientsByPhone(reqs[r].form.patientPhone)
          IN IF found = <<>>
             THEN Set(r, [reqs[r] EXCEPT !.pc = "insert_patient"])
             ELSE Set(r, [reqs[r] EXCEPT !.pc = "insert_visit",
                                         !.patientId = found[1].id])
    /\ UNCHANGED <<phase, indexes, provider, patients, visits, doctors, seed, canon, rank, admins>>

\* result = await db.patients.insert_one(patient_dict)
VisitInsertPatient(r) ==
    /\ reqs[r].pc = "insert_patient"
    /\ \/ Fail500(r) /\ UNCHANGED patients
       \/ /\ ~(indexes /\ PatientsByPhone(reqs[r].form.patientPhone) # <<>>)
          /\ patients' = Append(patients,
                [id |-> r, phone |-> reqs[r].form.patientPhone,
                 age |-> reqs[r].form.patientAge,
                 gender |-> reqs[r].form.patientGender])
          /\ Set(r, [reqs[r] EXCEPT !.pc = "insert_visit", !.patientId = r])
    /\ UNCHANGED <<phase, indexes, provider, visits, doctors, seed, canon, rank, admins>>

\* What runs between the two awaits: the gate and
\* generate_visit_embedding(visit_dict); a raise is caught by the inner
\* except.  The outcome is the request as it stands at the next await.
AfterEmbed(req) ==
    IF ~EmbeddingRequested(req.form)
    THEN {[req EXCEPT !.pc = "inc_doctor", !.embedStep = "skipped"]}
    ELSE LET text == combined_text(visit_dict(req.form))
         IN {[req EXCEPT !.pc = "inc_doctor", !.text = text,
                         !.embedStep = "embed_failed"]}
            \cup (IF Uninitialized(provider) THEN {}
                  ELSE {[req EXCEPT !.pc = "patch", !.text = text,
                                    !.embedding = vec] : vec \in Vectors})

\* result = await db.visits.insert_one(visit_dict), then the handler runs
\* on to its next store access.
VisitInsert(r) ==
    /\ reqs[r].pc = "insert_visit"
    /\ \/ Fail500(r) /\ UNCHANGED visits
       \/ /\ visits' = Append(visits,
                [id |-> r, patientId |-> reqs[r].patientId,
                 doctorId |-> reqs[r].doctor, data |-> visit_dict(reqs[r].form),
                 embedding |-> NoEmbedding])
          /\ \E next \in AfterEmbed([reqs[r] EXCEPT !.visitId = r,
                                                    !.inserted = TRUE]) :
                Set(r, next)
    /\ UNCHANGED <<phase, indexes, provider, patients, doctors, seed, canon, rank, admins>>

\* await db.visits.update_one(...); a raise is caught by the inner except.
VisitPatch(r) ==
    /\ reqs[r].pc = "patch"
    /\ \/ /\ Set(r, [reqs[r] EXCEPT !.pc = "inc_doctor", !.embedding = NoEmbedding,
                                    !.embedStep = "patch_failed"])
          /\ UNCHANGED visits
       \/ /\ visits' = PatchEmbedding(visits, reqs[r].visitId, reqs[r].embedding)
          /\ Set(r, [reqs[r] EXCEPT !.pc = "inc_doctor", !.embedding = NoEmbedding,
                                    !.embedStep = "written"])
    /\ UNCHANGED <<phase, indexes, provider, patients, doctors, seed, canon, rank, admins>>

\* A variant whose message tells whether the embedding was stored.
visit_response_reporting(req) ==
    [ message |-> IF req.embedStep = "written"
                  THEN "Visit created successfully"
                  ELSE "Visit created without embedding",
      visit_id |-> ToString(req.visitId),
      patient_id |-> ToString(req.patientId) ]

\* The dictionary create_visit returns.
visit_response(req) ==
    [ message |-> "Visit created successfully",
      visit_id |-> ToString(req.visitId),
      patient_id |-> ToString(req.patientId) ]

\* await db.doctors.update_one(..., {"$inc": {"totalPatients": 1}}), then
\* the success body is returned.
VisitIncDoctor(r) ==
    /\ reqs[r].pc = "inc_doctor"
    /\ \/ Fail500(r) /\ UNCHANGED doctors
       \/ /\ doctors' = [doctors EXCEPT ![reqs[r].doctor].totalPatients = @ + 1]
          /\ Set(r, [reqs[r] EXCEPT !.pc = "done", !.result = "ok",
                                    !.body = visit_response(reqs[r])])
    /\ UNCHANGED <<phase, indexes, provider, patients, visits, seed, canon, rank, admins>>

\* ---------------------------------------------------------------------
\* Similarity search
\* ---------------------------------------------------------------------
RECURSIVE DotUpTo(_, _, _)
DotUpTo(a, b, n) == IF n = 0 THEN 0 ELSE a[n] * b[n] + DotUpTo(a, b, n - 1)
Dot(a, b) == DotUpTo(a, b, Len(a))
Norm2(a) == Dot(a, a)

\* The order of cosine(q, s) among stored vectors s for one query q is the
\* order of sign(q.s) * (q.s)^2 / |s|^2; a zero norm gives similarity 0.
SimNum(q, s) ==
    LET d == Dot(q, s)
    IN IF Norm2(q) = 0 \/ Norm2(s) = 0 THEN 0
       ELSE IF d < 0 THEN 0 - d * d ELSE d * d
SimDen(q, s) == IF Norm2(q) = 0 \/ Norm2(s) = 0 THEN 1 ELSE Norm2(s)

\* cosine(q, s) > cosine(q, t)
MoreSimilar(q, s, t) == SimNum(q, s) * SimDen(q, t) > SimNum(q, t) * SimDen(q, s)

\* A variant in which a zero norm gives an undefined similarity, which
\* compares false with every threshold.
AtLeastUndefined(q, s, num, den) ==
    LET d == Dot(q, s)
        nn == Norm2(q) * Norm2(s)
    IN IF nn = 0 THEN FALSE
       ELSE IF num > 0 THEN d > 0 /\ d * d * den * den >= num * num * nn
       ELSE d >= 0 \/ d * d * den * den <= num * num * nn

\* A variant that asks for a similarity above the threshold.
AtLeastStrict(q, s, num, den) ==
    LET d == Dot(q, s)
        nn == Norm2(q) * Norm2(s)
    IN IF nn = 0 THEN num < 0
       ELSE IF num > 0 THEN d > 0 /\ d * d * den * den > num * num * nn
       ELSE d >= 0 \/ d * d * den * den < num * num * nn

\* cosine(q, s) >= num / den, for den > 0
AtLeast(q, s, num, den) ==
    LET d == Dot(q, s)
        nn == Norm2(q) * Norm2(s)
    IN IF nn = 0 THEN num <= 0
       ELSE IF num > 0 THEN d > 0 /\ d * d * den * den >= num * num * nn
       ELSE d >= 0 \/ d * d * den * den <= num * num * nn

RECURSIVE InsertDescBeforeTies(_, _, _)
\* A variant that places x before the items of equal similarity.
InsertDescBeforeTies(q, sorted, x) ==
    IF sorted = <<>> THEN <<x>>
    ELSE IF ~MoreSimilar(q, Head(sorted).embedding, x.embedding)
         THEN <<x>> \o sorted
         ELSE <<Head(sorted)>> \o InsertDescBeforeTies(q, Tail(sorted), x)

RECURSIVE InsertDesc(_, _, _)
\* Position of x in a list sorted by descending similarity: after every
\* item that is not less similar (list.sort is stable, also with reverse).
InsertDesc(q, sorted, x) ==
    IF sorted = <<>> THEN <<x>>
    ELSE IF MoreSimilar(q, x.embedding, Head(sorted).embedding)
         THEN <<x>> \o sorted
         ELSE <<Head(sorted)>> \o InsertDesc(q, Tail(sorted), x)

RECURSIVE SortDesc(_, _)
SortDesc(q, items) ==
    IF items = <<>> THEN <<>>
    ELSE InsertDesc(q, SortDesc(q, SubSeq(items, 1, Len(items) - 1)),
                    items[Len(items)])

\* A variant that keeps the last k items.
TakeLast(seq, k) ==
    SubSeq(seq, (IF k < Len(seq) THEN Len(seq) - k ELSE 0) + 1, Len(seq))

Take(seq, k) == SubSeq(seq, 1, IF k < Len(seq) THEN k ELSE Len(seq))

\* A variant that leaves out the stored items whose length differs from
\* the query's and ranks the others.
find_similar_visits_skipping(q, stored, top_k, num, den) ==
    LET Eligible(e) == Len(e.embedding) = Len(q) /\ AtLeast(q, e.embedding, num, den)
    IN Take(SortDesc(q, SelectSeq(stored, Eligible)), top_k)

\* A variant that ranks every stored item, whatever its similarity.
find_similar_visits_unfiltered(q, stored, top_k, num, den) ==
    IF stored = <<>> THEN <<>>
    ELSE IF \E i \in 1..Len(stored) : Len(stored[i].embedding) # Len(q)
         THEN <<>>
         ELSE Take(SortDesc(q, stored), top_k)

\* EmbeddingService.find_similar_visits, min_similarity = num / den
find_similar_visits(q, stored, top_k, num, den) ==
    IF stored = <<>> THEN <<>>
    ELSE IF \E i \in 1..Len(stored) : Len(stored[i].embedding) # Len(q)
         THEN <<>>
         ELSE LET Eligible(e) == AtLeast(q, e.embedding, num, den)
              IN Take(SortDesc(q, SelectSeq(stored, Eligible)), top_k)

\* Defaults of find_similar_visits: min_similarity = 0.1
DefaultMinNum == 1
DefaultMinDen == 10
\* chat_with_assistant asks for top_k = 3
ChatTopK == 3

\* ---------------------------------------------------------------------
\* chat_with_assistant
\* ---------------------------------------------------------------------
Messages == {"chest pain"}

PatientOf(v) == LET T(p) == p.id = v.patientId IN SelectSeq(patients, T)

\* A variant of the aggregation without the $match stage and the
\* embedding test: every visit joined to its patient.
StoredEmbeddingsUnmatched ==
    LET HasPatient(v) == PatientOf(v) # <<>>
        matched == SelectSeq(visits, HasPatient)
    IN [i \in 1..Len(matched) |->
          [visit_id |-> matched[i].id, embedding |-> matched[i].embedding,
           patient |-> PatientOf(matched[i])[1], clinical_data |-> matched[i].data]]

\* The aggregation: visits with an embedding, joined to their patient.
StoredEmbeddings ==
    LET HasEmbedding(v) == v.embedding # NoEmbedding /\ PatientOf(v) # <<>>
        matched == SelectSeq(visits, HasEmbedding)
    IN [i \in 1..Len(matched) |->
          [visit_id |-> matched[i].id, embedding |-> matched[i].embedding,
           patient |-> PatientOf(matched[i])[1], clinical_data |-> matched[i].data]]

RECURSIVE RoundSearch(_, _, _, _)
\* The largest k in lo..hi with k - 1/2 <= 1000 * sqrt(d2 / nn).
RoundSearch(lo, hi, d2, nn) ==
    IF lo = hi THEN lo
    ELSE LET mid == (lo + hi + 1) \div 2
         IN IF (2 * mid - 1) * (2 * mid - 1) * nn <= 4000000 * d2
            THEN RoundSearch(mid, hi, d2, nn)
            ELSE RoundSearch(lo, mid - 1, d2, nn)

\* round(score, 3) of the cosine of q and s, in thousandths (707 is 0.707).
Round3(q, s) ==
    LET d == Dot(q, s)
        nn == Norm2(q) * Norm2(s)
        k == RoundSearch(0, 1000, d * d, nn)
    IN IF nn = 0 THEN 0 ELSE IF d < 0 THEN 0 - k ELSE k

\* f"{score:.3f}" of a score given in thousandths.
Fixed3(k) ==
    (IF k < 0 THEN <<"-">> ELSE <<>>)
    \o LET a == IF k < 0 THEN 0 - k ELSE k
       IN << ToString(a \div 1000), ".", ToString((a \div 100) % 10),
             ToString((a \div 10) % 10), ToString(a % 10) >>

Outcome(case_data) ==
    IF case_data.clinical_data.hasVitals /\ case_data.clinical_data.hasDidRecover
       /\ case_data.clinical_data.didRecover
    THEN "Recovered" ELSE "In Treatment"

\* A variant that numbers the cases from 0.
case_summary_from_zero(i, q, case_data) ==
    [ case_number |-> i - 1,
      similarity_score |-> Round3(q, case_data.embedding),
      patient_age |-> case_data.patient.age,
      patient_gender |-> case_data.patient.gender,
      clinical_observations |-> case_data.clinical_data.doctorNoticed,
      prescribed_medications |-> case_data.clinical_data.prescribedMedications,
      outcome |-> Outcome(case_data) ]

\* The case_summary dictionary of the i-th ranked case.
case_summary(i, q, case_data) ==
    [ case_number |-> i,
      similarity_score |-> Round3(q, case_data.embedding),
      patient_age |-> case_data.patient.age,
      patient_gender |-> case_data.patient.gender,
      clinical_observations |-> case_data.clinical_data.doctorNoticed,
      prescribed_medications |-> case_data.clinical_data.prescribedMedications,
      outcome |-> Outcome(case_data) ]

\* The lines response_text gains for the i-th ranked case.
CaseLines(i, q, case_data) ==
    <<"Case ", ToString(i), " (Similarity: ">>
    \o Fixed3(Round3(q, case_data.embedding)) \o <<"):\n">>
    \o <<"- Patient: ", ToString(case_data.patient.age), "yr ">>
    \o Fmt(case_data.patient.gender) \o <<"\n">>
    \o <<"- Observations: ">> \o Fmt(case_data.clinical_data.doctorNoticed)
    \o <<"\n">>
    \o <<"- Treatment: ">> \o Fmt(case_data.clinical_data.prescribedMedications)
    \o <<"\n">>
    \o <<"- Outcome: ", Outcome(case_data), "\n\n">>

RECURSIVE CaseLinesUpTo(_, _, _)
CaseLinesUpTo(n, q, similar_cases) ==
    IF n = 0 THEN <<>>
    ELSE CaseLinesUpTo(n - 1, q, similar_cases)
         \o CaseLines(n, q, similar_cases[n])

NoSimilarCasesMessage ==
    <<"I couldn't find any similar cases matching your query. This might be a unique case that requires careful consideration.">>

\* A variant that writes the narrative of the found cases whatever their
\* number.
chat_response_always_found(m, q, similar_cases) ==
    [ response |->
          <<"Based on your query '", m, "', I found ",
            ToString(Len(similar_cases)), " similar cases:\n\n">>
          \o CaseLinesUpTo(Len(similar_cases), q, similar_cases),
      similar_cases |->
          [i \in 1..Len(similar_cases) |-> case_summary(i, q, similar_cases[i])],
      query |-> m ]

\* The response body of chat_with_assistant for the ranked similar_cases.
chat_response(m, q, similar_cases) ==
    IF similar_cases # <<>>
    THEN [ response |->
               <<"Based on your query '", m, "', I found ",
                 ToString(Len(similar_cases)), " similar cases:\n\n">>
               \o CaseLinesUpTo(Len(similar_cases), q, similar_cases),
           similar_cases |->
               [i \in 1..Len(similar_cases) |->
                   case_summary(i, q, similar_cases[i])],
           query |-> m ]
    ELSE [ response |-> NoSimilarCasesMessage, similar_cases |-> <<>>,
           query |-> m ]

\* The handler answers; q is the query embedding (NoEmbedding when the
\* embed call raised), cases the list query_similar_cases returned.
Respond(r, d, m, q, stored, cases) ==
    Set(r, [IdleReq EXCEPT
          !.kind = "chat", !.pc = "done", !.doctor = d, !.message = m,
          !.embedding = q,
          !.corpus = [i \in 1..Len(stored) |-> stored[i].visit_id],
          !.cases = cases, !.body = chat_response(m, q, cases),
          !.result = "ok"])

\* The handler runs from the corpus read to the response without another
\* store access: query_similar_cases swallows every provider error.
Chat(r) ==
    /\ Arrives(r)
    /\ \E d \in Doctors, m \in Messages :
          IF DoctorRejected(d)
          THEN Forbidden403(r, [IdleReq EXCEPT !.kind = "chat", !.doctor = d,
                                               !.message = m])
          ELSE
          \/ Set(r, [IdleReq EXCEPT !.kind = "chat", !.pc = "done", !.doctor = d,
                                    !.message = m, !.result = "error500"])
          \/ Respond(r, d, m, NoEmbedding, StoredEmbeddings, <<>>)
          \/ /\ ~Uninitialized(provider)
             /\ \E q \in Vectors :
                   Respond(r, d, m, q, StoredEmbeddings,
                       find_similar_visits(q, StoredEmbeddings, ChatTopK,
                                           DefaultMinNum, DefaultMinDen))
    /\ UNCHANGED <<phase, indexes, provider, patients, visits, doctors, seed, canon, rank, admins>>

\* ---------------------------------------------------------------------
\* seed_data.py (SAMPLE_VISITS cut to its first entry)
\* ---------------------------------------------------------------------
MaxSeedRuns == 2

SampleVisit ==
    [ patientPhone |-> "555-5678", patientAge |-> 45, patientGender |-> "Male",
      doctor |-> "doc123",
      bloodPressure |-> "120/80", oxygen |-> "98%", weight |-> "75kg",
      didRecover |-> FALSE, clinicalTests |-> "CBC normal",
      doctorNoticed |-> "fatigue", prescribedMedications |-> "Iron supplement" ]

SeedAbort == seed' = [seed EXCEPT !.pc = "aborted"]

NoDuplicatePhones ==
    \A i, j \in 1..Len(patients) : patients[i].phone = patients[j].phone => i = j

\* seed_database: connect_to_mongo (which creates the indexes again),
\* initialize() of the script's own provider instance, create_doctors
\* finding the doctors that exist.
SeedStart ==
    /\ seed.pc \in {"off", "done", "aborted"}
    /\ seed.runs < MaxSeedRuns
    /\ \E created \in BOOLEAN : indexes' = (indexes \/ (created /\ NoDuplicatePhones))
    /\ \E o \in InitializeOutcomes, ok \in BOOLEAN :
          seed' = [SeedOff EXCEPT !.pc = IF ok THEN "find_patient" ELSE "aborted",
                                  !.runs = seed.runs + 1,
                                  !.tokenizer = o.tokenizer, !.model = o.model]
    /\ UNCHANGED <<phase, provider, patients, visits, doctors, reqs, canon, rank, admins>>

\* create_patients: existing = await patients_collection.find_one(...)
SeedFindPatient ==
    /\ seed.pc = "find_patient"
    /\ \/ SeedAbort
       \/ LET found == PatientsByPhone(SampleVisit.patientPhone)
          IN IF found = <<>>
             THEN seed' = [seed EXCEPT !.pc = "insert_patient"]
             ELSE seed' = [seed EXCEPT !.pc = "find_visit", !.patientId = found[1].id]
    /\ UNCHANGED <<phase, indexes, provider, patients, visits, doctors, reqs, canon, rank, admins>>

\* create_patients: result = await patients_collection.insert_one(patient_doc)
SeedInsertPatient ==
    /\ seed.pc = "insert_patient"
    /\ \/ SeedAbort /\ UNCHANGED patients
       \/ /\ ~(indexes /\ PatientsByPhone(SampleVisit.patientPhone) # <<>>)
          /\ patients' = Append(patients,
                [id |-> 0 - seed.runs, phone |-> SampleVisit.patientPhone,
                 age |-> SampleVisit.patientAge, gender |-> SampleVisit.patientGender])
          /\ seed' = [seed EXCEPT !.pc = "find_visit", !.patientId = 0 - seed.runs]
    /\ UNCHANGED <<phase, indexes, provider, visits, doctors, reqs, canon, rank, admins>>

\* create_visits_with_embeddings: the "visit already exists" check
SeedFindVisit ==
    /\ seed.pc = "find_visit"
    /\ \/ SeedAbort
       \/ LET Same(v) == /\ v.patientId = seed.patientId
                         /\ v.doctorId = SampleVisit.doctor
                         /\ v.data.prescribedMedications = SampleVisit.prescribedMedications
          IN IF SelectSeq(visits, Same) # <<>>
             THEN seed' = [seed EXCEPT !.pc = "done"]
             ELSE seed' = [seed EXCEPT !.pc = "insert_visit"]
    /\ UNCHANGED <<phase, indexes, provider, patients, visits, doctors, reqs, canon, rank, admins>>

\* create_visits_with_embeddings: insert_one, then generate_visit_embedding
\* inside the try, up to the await of the patch.
SeedInsertVisit ==
    /\ seed.pc = "insert_visit"
    /\ \/ SeedAbort /\ UNCHANGED visits
       \/ /\ visits' = Append(visits,
                [id |-> 0 - seed.runs, patientId |-> seed.patientId,
                 doctorId |-> SampleVisit.doctor, data |-> visit_dict(SampleVisit),
                 embedding |-> NoEmbedding])
          /\ \/ seed' = [seed EXCEPT !.pc = "inc_doctor", !.visitId = 0 - seed.runs,
                                     !.embedStep = "embed_failed"]
             \/ /\ ~Uninitialized(seed)
                /\ \E vec \in Vectors :
                      seed' = [seed EXCEPT !.pc = "patch", !.visitId = 0 - seed.runs,
                                           !.embedding = vec]
    /\ UNCHANGED <<phase, indexes, provider, patients, doctors, reqs, canon, rank, admins>>

\* create_visits_with_embeddings: the update_one inside the try
SeedPatch ==
    /\ seed.pc = "patch"
    /\ \/ /\ seed' = [seed EXCEPT !.pc = "inc_doctor", !.embedding = NoEmbedding,
                                  !.embedStep = "patch_failed"]
          /\ UNCHANGED visits
       \/ /\ visits' = PatchEmbedding(visits, seed.visitId, seed.embedding)
          /\ seed' = [seed EXCEPT !.pc = "inc_doctor", !.embedding = NoEmbedding,
                                  !.embedStep = "written"]
    /\ UNCHANGED <<phase, indexes, provider, patients, doctors, reqs, canon, rank, admins>>

\* create_visits_with_embeddings: the doctor's patient count
SeedIncDoctor ==
    /\ seed.pc = "inc_doctor"
    /\ \/ SeedAbort /\ UNCHANGED doctors
       \/ /\ doctors' = [doctors EXCEPT ![SampleVisit.doctor].totalPatients = @ + 1]
          /\ seed' = [seed EXCEPT !.pc = "done"]
    /\ UNCHANGED <<phase, indexes, provider, patients, visits, reqs, canon, rank, admins>>

\* The narrative of a response: the fixed message when no case survived.
NoSimilarCases(req) == req.result = "ok" /\ req.cases = <<>>

Next ==
    \/ Lifespan
    \/ \E r \in Requests : StartVisit(r)
    \/ \E r \in Requests : VisitFindPatient(r)
    \/ \E r \in Requests : VisitInsertPatient(r)
    \/ \E r \in Requests : VisitInsert(r)
    \/ \E r \in Requests : VisitPatch(r)
    \/ \E r \in Requests : VisitIncDoctor(r)
    \/ \E r \in Requests : Chat(r)

Spec == Init /\ [][Next]_vars

\* Two create_visit calls running side by side, and nothing else.
TwoRequests == {1, 2}

NextVisits ==
    \/ Lifespan
    \/ \E r \in TwoRequests : StartVisit(r)
    \/ \E r \in TwoRequests : VisitFindPatient(r)
    \/ \E r \in TwoRequests : VisitInsertPatient(r)
    \/ \E r \in TwoRequests : VisitInsert(r)
    \/ \E r \in TwoRequests : VisitPatch(r)
    \/ \E r \in TwoRequests : VisitIncDoctor(r)

SpecVisits == Init /\ [][NextVisits]_vars

\* The seeding script running beside the server while it handles a request.
FirstRequest == {1}

NextSeed ==
    \/ Lifespan
    \/ SeedStart
    \/ SeedFindPatient
    \/ SeedInsertPatient
    \/ SeedFindVisit
    \/ SeedInsertVisit
    \/ SeedPatch
    \/ SeedIncDoctor
    \/ \E r \in FirstRequest : StartVisit(r)
    \/ \E r \in FirstRequest : VisitFindPatient(r)
    \/ \E r \in FirstRequest : VisitInsertPatient(r)
    \/ \E r \in FirstRequest : VisitInsert(r)
    \/ \E r \in FirstRequest : VisitPatch(r)
    \/ \E r \in FirstRequest : VisitIncDoctor(r)
    \/ \E r \in FirstRequest : Chat(r)

SpecSeed == Init /\ [][NextSeed]_vars

\* ---------------------------------------------------------------------
\* Queries against a store that earlier create_visit calls have filled,
\* while the seeding script creates its visit
\* ---------------------------------------------------------------------
\* What an earlier call left of its visit: nothing, or the visit with its
\* embedding absent or written.
Leftovers ==
    {[stored |-> FALSE, embedding |-> NoEmbedding]}
    \cup [stored : {TRUE}, embedding : {NoEmbedding} \cup Vectors]

StoredPatient(id, f) ==
    [id |-> id, phone |-> f.patientPhone, age |-> f.patientAge,
     gender |-> f.patientGender]

StoredVisit(id, d, f, e) ==
    [id |-> id, patientId |-> id, doctorId |-> d, data |-> visit_dict(f),
     embedding |-> e]

InitChat ==
    /\ phase = "serving"
    /\ indexes = TRUE
    /\ provider \in InitializeOutcomes
    /\ \E a \in Leftovers, b \in Leftovers :
          /\ patients = Opt(a.stored, StoredPatient(1, FormA))
                        \o Opt(b.stored, StoredPatient(2, FormB))
          /\ visits = Opt(a.stored, StoredVisit(1, "doc123", FormA, a.embedding))
                      \o Opt(b.stored, StoredVisit(2, "doc456", FormB, b.embedding))
          /\ doctors = [d \in Doctors |->
                [totalPatients |->
                    IF d = "doc123" THEN (IF a.stored THEN 1 ELSE 0)
                    ELSE (IF b.stored THEN 1 ELSE 0),
                 isBlocked |-> FALSE]]
    /\ reqs = [r \in Requests |-> IdleReq]
    /\ seed = SeedOff
    /\ canon = CanonIdle
    /\ rank = RankIdle
    /\ admins = <<>>

NextChat ==
    \/ SeedStart
    \/ SeedFindPatient
    \/ SeedInsertPatient
    \/ SeedFindVisit
    \/ SeedInsertVisit
    \/ SeedPatch
    \/ SeedIncDoctor
    \/ \E r \in FirstRequest : Chat(r)

SpecChat == InitChat /\ [][NextChat]_vars

\* ---------------------------------------------------------------------
\* Queries against a store that also holds embeddings of another length
\* (visits.embedding is an unvalidated list of floats)
\* ---------------------------------------------------------------------
OtherLengthVectors == {<<1, 0, 0>>}

MixedLeftovers ==
    Leftovers \cup [stored : {TRUE}, embedding : OtherLengthVectors]

InitMixed ==
    /\ phase = "serving"
    /\ indexes = TRUE
    /\ provider \in InitializeOutcomes
    /\ \E a \in MixedLeftovers, b \in MixedLeftovers :
          /\ patients = Opt(a.stored, StoredPatient(1, FormA))
                        \o Opt(b.stored, StoredPatient(2, FormB))
          /\ visits = Opt(a.stored, StoredVisit(1, "doc123", FormA, a.embedding))
                      \o Opt(b.stored, StoredVisit(2, "doc456", FormB, b.embedding))
          /\ doctors = [d \in Doctors |->
                [totalPatients |->
                    IF d = "doc123" THEN (IF a.stored THEN 1 ELSE 0)
                    ELSE (IF b.stored THEN 1 ELSE 0),
                 isBlocked |-> FALSE]]
    /\ reqs = [r \in Requests |-> IdleReq]
    /\ seed = SeedOff
    /\ canon = CanonIdle
    /\ rank = RankIdle
    /\ admins = <<>>

NextMixed == \E r \in TwoRequests : Chat(r)

SpecMixed == InitMixed /\ [][NextMixed]_vars

\* ---------------------------------------------------------------------
\* A visit for a phone that has a patient, then a query
\* ---------------------------------------------------------------------
\* FormA's phone sent with another age and gender.
FormChanged == [FormA EXCEPT !.patientAge = 46, !.patientGender = "Female"]

RepeatCalls == {<<"doc456", FormChanged>>, <<"doc456", FormB>>}

StartRepeatVisit(r) ==
    /\ Arrives(r)
    /\ \E c \in RepeatCalls :
          LET call == [IdleReq EXCEPT !.kind = "visit", !.doctor = c[1],
                                      !.form = c[2]]
          IN IF DoctorRejected(c[1]) THEN Forbidden403(r, call)
             ELSE Set(r, [call EXCEPT !.pc = "find_patient"])
    /\ UNCHANGED <<phase, indexes, provider, patients, visits, doctors, seed, canon, rank, admins>>

\* The store holds FormA's patient, with or without a visit, and perhaps
\* FormB's patient and visit.
InitRepeat ==
    /\ phase = "serving"
    /\ indexes = TRUE
    /\ provider \in InitializeOutcomes
    /\ \E a \in Leftovers, b \in Leftovers :
          /\ patients = <<StoredPatient(11, FormA)>>
                        \o Opt(b.stored, StoredPatient(12, FormB))
          /\ visits = Opt(a.stored, StoredVisit(11, "doc123", FormA, a.embedding))
                      \o Opt(b.stored, StoredVisit(12, "doc456", FormB, b.embedding))
          /\ doctors = [d \in Doctors |->
                [totalPatients |->
                    IF d = "doc123" THEN (IF a.stored THEN 1 ELSE 0)
                    ELSE (IF b.stored THEN 1 ELSE 0),
                 isBlocked |-> FALSE]]
    /\ reqs = [r \in Requests |-> IdleReq]
    /\ seed = SeedOff
    /\ canon = CanonIdle
    /\ rank = RankIdle
    /\ admins = <<>>

NextRepeat ==
    \/ \E r \in TwoRequests : StartRepeatVisit(r)
    \/ \E r \in TwoRequests : VisitFindPatient(r)
    \/ \E r \in TwoRequests : VisitInsertPatient(r)
    \/ \E r \in TwoRequests : VisitInsert(r)
    \/ \E r \in TwoRequests : VisitPatch(r)
    \/ \E r \in TwoRequests : VisitIncDoctor(r)
    \/ \E r \in TwoRequests : Chat(r)

SpecRepeat == InitRepeat /\ [][NextRepeat]_vars

\* ---------------------------------------------------------------------
\* create_or_get_patient beside create_visit
\* ---------------------------------------------------------------------
\* existing_patient = await db.patients.find_one({"phone": ...}), returned
\* when found.
PatientFind(r) ==
    /\ Arrives(r)
    /\ \E d \in Doctors, f \in {FormA, FormB} :
          LET call == [IdleReq EXCEPT !.kind = "patient", !.doctor = d, !.form = f]
              found == PatientsByPhone(f.patientPhone)
          IN IF DoctorRejected(d) THEN Forbidden403(r, call)
             ELSE
             \/ Unhandled500(r, call)
             \/ IF found # <<>>
                THEN Set(r, [call EXCEPT !.pc = "done", !.result = "ok",
                                         !.patientId = found[1].id])
                ELSE Set(r, [call EXCEPT !.pc = "patient_insert"])
    /\ UNCHANGED <<phase, indexes, provider, patients, visits, doctors, seed, canon, rank, admins>>

\* result = await db.patients.insert_one(patient_dict); the unique index,
\* when it exists, makes the insert of a second record of a phone raise.
PatientInsert(r) ==
    /\ reqs[r].pc = "patient_insert"
    /\ \/ Unhandled500(r, reqs[r]) /\ UNCHANGED patients
       \/ /\ ~(indexes /\ PatientsByPhone(reqs[r].form.patientPhone) # <<>>)
          /\ patients' = Append(patients,
                [id |-> r, phone |-> reqs[r].form.patientPhone,
                 age |-> reqs[r].form.patientAge,
                 gender |-> reqs[r].form.patientGender])
          /\ Set(r, [reqs[r] EXCEPT !.pc = "patient_reread", !.patientId = r])
    /\ UNCHANGED <<phase, indexes, provider, visits, doctors, seed, canon, rank, admins>>

\* new_patient = await db.patients.find_one({"_id": result.inserted_id})
PatientReread(r) ==
    /\ reqs[r].pc = "patient_reread"
    /\ \/ Unhandled500(r, reqs[r])
       \/ Set(r, [reqs[r] EXCEPT !.pc = "done", !.result = "ok"])
    /\ UNCHANGED <<phase, indexes, provider, patients, visits, doctors, seed, canon, rank, admins>>

NextPatients ==
    \/ Lifespan
    \/ \E r \in TwoRequests : PatientFind(r)
    \/ \E r \in TwoRequests : PatientInsert(r)
    \/ \E r \in TwoRequests : PatientReread(r)
    \/ \E r \in TwoRequests : StartVisit(r)
    \/ \E r \in TwoRequests : VisitFindPatient(r)
    \/ \E r \in TwoRequests : VisitInsertPatient(r)
    \/ \E r \in TwoRequests : VisitInsert(r)
    \/ \E r \in TwoRequests : VisitPatch(r)
    \/ \E r \in TwoRequests : VisitIncDoctor(r)

SpecPatients == Init /\ [][NextPatients]_vars

\* ---------------------------------------------------------------------
\* routes/admin.py: setup_initial_admin and create_admin
\* ---------------------------------------------------------------------
AdminPhones == {"admin-1", "admin-2"}

\* authenticate_user's fallback account, which needs no stored record.
HardcodedAdmin == "admin123"

AdminsByPhone(phone) == LET T(a) == a.phone = phone IN SelectSeq(admins, T)

\* dict.get(key, default)
GetOr(rec, key, default) == IF key \in DOMAIN rec THEN rec[key] ELSE default

\* get_current_user for a token of the given subject and role "admin": the
\* dictionary is built from the token alone.
get_current_user_admin(phone) ==
    [phone |-> phone, role |-> "admin", name |-> "Admin User"]

\* get_current_admin: the role check passes for an admin token.
get_current_admin(phone) == get_current_user_admin(phone)

\* login issues an admin token to a stored admin and to the fallback
\* account.
HoldsAdminToken(phone) ==
    phone = HardcodedAdmin \/ AdminsByPhone(phone) # <<>>

\* admin_count = await db.admins.count_documents({}); 400 when positive.
SetupCount(r) ==
    /\ Arrives(r)
    /\ \E p \in AdminPhones :
          LET call == [IdleReq EXCEPT !.kind = "setup", !.phone = p]
          IN \/ Unhandled500(r, call)
             \/ IF Len(admins) > 0
                THEN Set(r, [call EXCEPT !.pc = "done", !.result = "error400",
                                         !.admin_count = Len(admins)])
                ELSE Set(r, [call EXCEPT !.pc = "setup_insert"])
    /\ UNCHANGED <<phase, indexes, provider, patients, visits, doctors, seed, canon, rank, admins>>

\* result = await db.admins.insert_one(admin_dict), isSuperAdmin = True
SetupInsert(r) ==
    /\ reqs[r].pc = "setup_insert"
    /\ \/ Unhandled500(r, reqs[r]) /\ UNCHANGED admins
       \/ /\ admins' = Append(admins, [id |-> r, phone |-> reqs[r].phone,
                                        isSuperAdmin |-> TRUE])
          /\ Set(r, [reqs[r] EXCEPT
                !.pc = "done", !.result = "ok", !.inserted = TRUE,
                !.body = [message |-> "Initial admin setup completed successfully",
                          admin_id |-> r, isSuperAdmin |-> TRUE]])
    /\ UNCHANGED <<phase, indexes, provider, patients, visits, doctors, seed, canon, rank>>

\* create_admin up to its privilege check: the count, then 403 when admins
\* exist and current_admin carries no true isSuperAdmin.
CreateAdminCount(r) ==
    /\ Arrives(r)
    /\ \E c \in AdminPhones \cup {HardcodedAdmin}, p \in AdminPhones :
          /\ HoldsAdminToken(c)
          /\ LET call == [IdleReq EXCEPT !.kind = "create_admin", !.caller = c,
                                         !.phone = p]
                 current_admin == get_current_admin(c)
             IN \/ Unhandled500(r, call)
                \/ IF Len(admins) > 0 /\ ~GetOr(current_admin, "isSuperAdmin", FALSE)
                   THEN Set(r, [call EXCEPT !.pc = "done", !.result = "error403",
                                            !.admin_count = Len(admins)])
                   ELSE Set(r, [call EXCEPT !.pc = "create_find",
                                            !.admin_count = Len(admins)])
    /\ UNCHANGED <<phase, indexes, provider, patients, visits, doctors, seed, canon, rank, admins>>

\* existing_admin = await db.admins.find_one({"phone": ...}); 400 when found.
CreateAdminFind(r) ==
    /\ reqs[r].pc = "create_find"
    /\ \/ Unhandled500(r, reqs[r])
       \/ IF AdminsByPhone(reqs[r].phone) # <<>>
          THEN Set(r, [reqs[r] EXCEPT !.pc = "done", !.result = "error400"])
          ELSE Set(r, [reqs[r] EXCEPT !.pc = "create_insert"])
    /\ UNCHANGED <<phase, indexes, provider, patients, visits, doctors, seed, canon, rank, admins>>

\* result = await db.admins.insert_one(admin_dict),
\* isSuperAdmin = (admin_count == 0)
CreateAdminInsert(r) ==
    /\ reqs[r].pc = "create_insert"
    /\ \/ Unhandled500(r, reqs[r]) /\ UNCHANGED admins
       \/ /\ admins' = Append(admins, [id |-> r, phone |-> reqs[r].phone,
                                        isSuperAdmin |-> reqs[r].admin_count = 0])
          /\ Set(r, [reqs[r] EXCEPT
                !.pc = "done", !.result = "ok", !.inserted = TRUE,
                !.body = [message |-> "Admin created successfully",
                          admin_id |-> r,
                          isSuperAdmin |-> reqs[r].admin_count = 0]])
    /\ UNCHANGED <<phase, indexes, provider, patients, visits, doctors, seed, canon, rank>>

\* The admin collection before the calls: empty, or holding the super
\* admin an earlier setup call created.
EarlierSetupAdmin == [id |-> 0, phone |-> "admin-1", isSuperAdmin |-> TRUE]

InitAdmin ==
    /\ phase = "serving"
    /\ indexes \in BOOLEAN
    /\ provider = [tokenizer |-> TRUE, model |-> TRUE]
    /\ patients = <<>>
    /\ visits = <<>>
    /\ doctors = [d \in Doctors |-> [totalPatients |-> 0, isBlocked |-> FALSE]]
    /\ reqs = [r \in Requests |-> IdleReq]
    /\ seed = SeedOff
    /\ canon = CanonIdle
    /\ rank = RankIdle
    /\ admins \in {<<>>, <<EarlierSetupAdmin>>}

NextAdmin ==
    \/ \E r \in TwoRequests : SetupCount(r)
    \/ \E r \in TwoRequests : SetupInsert(r)
    \/ \E r \in TwoRequests : CreateAdminCount(r)
    \/ \E r \in TwoRequests : CreateAdminFind(r)
    \/ \E r \in TwoRequests : CreateAdminInsert(r)

SpecAdmin == InitAdmin /\ [][NextAdmin]_vars

\* ---------------------------------------------------------------------
\* Blocking a doctor: toggle_doctor_block_status, login and the
\* doctor-only routes
\* ---------------------------------------------------------------------
\* doctor = await db.doctors.find_one({"_id": ...}); the handler keeps the
\* isBlocked it read.
ToggleRead(r) ==
    /\ Arrives(r)
    /\ \E d \in Doctors :
          LET call == [IdleReq EXCEPT !.kind = "toggle", !.doctor = d,
                                      !.caller = HardcodedAdmin]
          IN \/ Unhandled500(r, call)
             \/ Set(r, [call EXCEPT !.pc = "toggle_write",
                                    !.isBlocked = doctors[d].isBlocked])
    /\ UNCHANGED <<phase, indexes, provider, patients, visits, doctors, seed, canon, rank, admins>>

\* new_blocked_status = not doctor.get("isBlocked", False), then
\* await db.doctors.update_one(..., {"$set": {"isBlocked": ...}}) and the
\* response.
ToggleWrite(r) ==
    /\ reqs[r].pc = "toggle_write"
    /\ LET new_blocked_status == ~reqs[r].isBlocked
       IN \/ Unhandled500(r, reqs[r]) /\ UNCHANGED doctors
          \/ /\ doctors' = [doctors EXCEPT
                   ![reqs[r].doctor].isBlocked = new_blocked_status]
             /\ Set(r, [reqs[r] EXCEPT
                   !.pc = "done", !.result = "ok",
                   !.body = [message |-> IF new_blocked_status
                                         THEN "Doctor blocked successfully"
                                         ELSE "Doctor unblocked successfully",
                             isBlocked |-> new_blocked_status]])
    /\ UNCHANGED <<phase, indexes, provider, patients, visits, seed, canon, rank, admins>>

\* The passwords a login is tried with; verify_password accepts the first.
Passwords == {"stored", "other"}

\* login with a doctor's phone: authenticate_user finds no admin of that
\* phone, the phone is not the fallback account's, and the doctor's record
\* decides; None gives 401, a blocked account 403.
Login(r) ==
    /\ Arrives(r)
    /\ \E d \in Doctors, password \in Passwords :
          LET call == [IdleReq EXCEPT !.kind = "login", !.doctor = d]
          IN \/ Unhandled500(r, call)
             \/ /\ AdminsByPhone(d) = <<>> /\ d # HardcodedAdmin
                /\ IF password # "stored"
                   THEN Set(r, [call EXCEPT !.pc = "done", !.result = "error401"])
                   ELSE IF doctors[d].isBlocked
                   THEN Forbidden403(r, [call EXCEPT !.caller = d])
                   ELSE Set(r, [call EXCEPT !.pc = "done", !.result = "ok",
                                            !.caller = d])
    /\ UNCHANGED <<phase, indexes, provider, patients, visits, doctors, seed, canon, rank, admins>>

\* get_doctor_profile: the record get_current_doctor read.
DoctorProfile(r) ==
    /\ Arrives(r)
    /\ \E d \in Doctors :
          LET call == [IdleReq EXCEPT !.kind = "profile", !.doctor = d]
          IN IF DoctorRejected(d) THEN Forbidden403(r, call)
             ELSE Set(r, [call EXCEPT !.pc = "done", !.result = "ok"])
    /\ UNCHANGED <<phase, indexes, provider, patients, visits, doctors, seed, canon, rank, admins>>

\* get_doctor_visits: the doctor's visits; a store error gives 500.
DoctorVisits(r) ==
    /\ Arrives(r)
    /\ \E d \in Doctors :
          LET call == [IdleReq EXCEPT !.kind = "list_visits", !.doctor = d]
              Mine(v) == v.doctorId = d /\ PatientOf(v) # <<>>
              mine == SelectSeq(visits, Mine)
          IN IF DoctorRejected(d) THEN Forbidden403(r, call)
             ELSE \/ Unhandled500(r, call)
                  \/ Set(r, [call EXCEPT !.pc = "done", !.result = "ok",
                         !.corpus = [i \in 1..Len(mine) |-> mine[i].id]])
    /\ UNCHANGED <<phase, indexes, provider, patients, visits, doctors, seed, canon, rank, admins>>

\* The server after a startup that initialized the provider, with the
\* doctors as create_doctor stores them.
InitBlock ==
    /\ phase = "serving"
    /\ indexes = TRUE
    /\ provider = [tokenizer |-> TRUE, model |-> TRUE]
    /\ patients = <<>>
    /\ visits = <<>>
    /\ doctors = [d \in Doctors |-> [totalPatients |-> 0, isBlocked |-> FALSE]]
    /\ reqs = [r \in Requests |-> IdleReq]
    /\ seed = SeedOff
    /\ canon = CanonIdle
    /\ rank = RankIdle
    /\ admins = <<>>

NextBlock ==
    \/ \E r \in TwoRequests : ToggleRead(r)
    \/ \E r \in TwoRequests : ToggleWrite(r)
    \/ \E r \in TwoRequests : Login(r)
    \/ \E r \in TwoRequests : DoctorProfile(r)
    \/ \E r \in TwoRequests : DoctorVisits(r)
    \/ \E r \in TwoRequests : PatientFind(r)
    \/ \E r \in TwoRequests : PatientInsert(r)
    \/ \E r \in TwoRequests : PatientReread(r)
    \/ \E r \in TwoRequests : StartVisit(r)
    \/ \E r \in TwoRequests : VisitFindPatient(r)
    \/ \E r \in TwoRequests : VisitInsertPatient(r)
    \/ \E r \in TwoRequests : VisitInsert(r)
    \/ \E r \in TwoRequests : VisitPatch(r)
    \/ \E r \in TwoRequests : VisitIncDoctor(r)
    \/ \E r \in TwoRequests : Chat(r)

SpecBlock == InitBlock /\ [][NextBlock]_vars

\* ---------------------------------------------------------------------
\* The canonicaliser on its own: every visit dictionary of a bounded shape
\* ---------------------------------------------------------------------
TextVisits ==
    [ gender : {Absent, "", "Male"}, age : {Absent, "45"},
      hasVitals : BOOLEAN,
      bloodPressure : {Absent, "", "120/80"}, oxygen : {"", "98%"},
      weight : {"", "75kg"},
      hasDidRecover : BOOLEAN, didRecover : BOOLEAN,
      clinicalTests : {Absent, "", "CBC normal"},
      doctorNoticed : {NoneVal, "fatigue"},
      prescribedMedications : {Absent, NoneVal, "", "Iron supplement"} ]

OtherMedications == {NoneVal, "Iron supplement", "Statin therapy"}

InitText ==
    /\ phase = "boot"
    /\ indexes = FALSE
    /\ provider = [tokenizer |-> FALSE, model |-> FALSE]
    /\ patients = <<>>
    /\ visits = <<>>
    /\ doctors = [d \in Doctors |-> [totalPatients |-> 0, isBlocked |-> FALSE]]
    /\ reqs = [r \in Requests |-> IdleReq]
    /\ seed = SeedOff
    /\ \E v \in TextVisits, m \in OtherMedications :
          canon = [CanonIdle EXCEPT !.pc = "input", !.visit = v,
                                    !.otherMedications = m]
    /\ rank = RankIdle
    /\ admins = <<>>

\* create_clinical_text(visit_data) is called.
CanonClinical ==
    /\ canon.pc = "input"
    /\ canon' = [canon EXCEPT !.pc = "clinical",
                              !.clinical = create_clinical_text(canon.visit)]
    /\ UNCHANGED <<phase, indexes, provider, patients, visits, doctors, reqs, seed, rank, admins>>

\* generate_visit_embedding builds its text for the visit and for the
\* visit that differs from it in the prescribed medications only.
CanonCombined ==
    /\ canon.pc = "clinical"
    /\ canon' = [canon EXCEPT
          !.pc = "done",
          !.combined = combined_text(canon.visit),
          !.otherCombined = combined_text(
              [canon.visit EXCEPT !.prescribedMedications = canon.otherMedications])]
    /\ UNCHANGED <<phase, indexes, provider, patients, visits, doctors, reqs, seed, rank, admins>>

\* Identifier and timestamps a visit document may carry.
Stamps ==
    { [id |-> 1, date |-> "2024-01-01T10:00:00"],
      [id |-> 2, date |-> "2025-03-09T18:30:00"] }

\* A variant that writes the visit's date into the text.
embedding_input_dated(doc) ==
    combined_text(doc.data) \o <<". ", "Date: ", doc.date>>

\* The text generate_visit_embedding builds from a visit document: only the
\* clinical fields are read, no attribute of the service is.
embedding_input(doc) == combined_text(doc.data)

\* generate_visit_embedding is called again, after the calls above, for a
\* document of the same visit with some identifier and timestamps.
CanonRepeat ==
    /\ canon.pc = "done"
    /\ \E st \in Stamps :
          LET doc == [id |-> st.id, date |-> st.date, data |-> canon.visit]
          IN canon' = [canon EXCEPT !.pc = "repeated", !.document = doc,
                                    !.repeated = embedding_input(doc)]
    /\ UNCHANGED <<phase, indexes, provider, patients, visits, doctors, reqs, seed, rank, admins>>

NextText == CanonClinical \/ CanonCombined \/ CanonRepeat

SpecText == InitText /\ [][NextText]_vars

\* ---------------------------------------------------------------------
\* The demographics text on its own: every patient of a bounded shape
\* ---------------------------------------------------------------------
MaxAge == 66
PatientAges == 0..MaxAge

\* patient_data dictionaries: None, or a dict with or without an age.
PatientInputs ==
    {NoPatientData}
    \cup [ given : {TRUE}, hasAge : {TRUE}, age : PatientAges,
           gender : {Absent, "", "Female"} ]
    \cup [ given : {TRUE}, hasAge : {FALSE}, age : {0},
           gender : {Absent, "", "Female"} ]

DemoVisits == {EmptyVisit, [EmptyVisit EXCEPT !.doctorNoticed = "fatigue"]}

InitDemo ==
    /\ phase = "boot"
    /\ indexes = FALSE
    /\ provider = [tokenizer |-> FALSE, model |-> FALSE]
    /\ patients = <<>>
    /\ visits = <<>>
    /\ doctors = [d \in Doctors |-> [totalPatients |-> 0, isBlocked |-> FALSE]]
    /\ reqs = [r \in Requests |-> IdleReq]
    /\ seed = SeedOff
    /\ \E v \in DemoVisits, p \in PatientInputs :
          canon = [CanonIdle EXCEPT !.pc = "patient", !.visit = v, !.patient = p]
    /\ rank = RankIdle
    /\ admins = <<>>

\* create_clinical_text_with_demographics(visit_data, patient_data) is called.
CanonDemographics ==
    /\ canon.pc = "patient"
    /\ canon' = [canon EXCEPT
          !.pc = "demographics",
          !.demographics =
              create_clinical_text_with_demographics(canon.visit, canon.patient)]
    /\ UNCHANGED <<phase, indexes, provider, patients, visits, doctors, reqs, seed, rank, admins>>

NextDemo == CanonDemographics

SpecDemo == InitDemo /\ [][NextDemo]_vars

\* ---------------------------------------------------------------------
\* find_similar_visits on its own: every call of a bounded shape
\* ---------------------------------------------------------------------
MaxCorpus == 3
MaxTopK == 3

\* Embeddings of one dimension: the zero vector, opposite directions and
\* directions whose cosines are the exact decimals 0.6, 0.8 and 0.96.
RankVectors == {<<0, 0>>, <<1, 0>>, <<3, 4>>, <<4, 3>>, <<-1, 0>>}

\* min_similarity as num / den: -0.5, 0, the default 0.1, 0.6 and 0.7.
RankThresholds ==
    { [num |-> 0 - 1, den |-> 2], [num |-> 0, den |-> 1],
      [num |-> DefaultMinNum, den |-> DefaultMinDen],
      [num |-> 3, den |-> 5], [num |-> 7, den |-> 10] }

\* stored_embeddings lists: item i is the i-th visit read from the store.
RankCorpora ==
    { [i \in 1..n |-> [visit_id |-> i, embedding |-> f[i]]] :
        n \in 0..MaxCorpus, f \in [1..MaxCorpus -> RankVectors] }

InitRank ==
    /\ phase = "boot"
    /\ indexes = FALSE
    /\ provider = [tokenizer |-> FALSE, model |-> FALSE]
    /\ patients = <<>>
    /\ visits = <<>>
    /\ doctors = [d \in Doctors |-> [totalPatients |-> 0, isBlocked |-> FALSE]]
    /\ reqs = [r \in Requests |-> IdleReq]
    /\ seed = SeedOff
    /\ canon = CanonIdle
    /\ admins = <<>>
    /\ \E q \in RankVectors, c \in RankCorpora, k \in 0..MaxTopK,
          t \in RankThresholds :
          rank = [RankIdle EXCEPT !.pc = "called", !.query = q, !.stored = c,
                                  !.top_k = k, !.num = t.num, !.den = t.den]

\* find_similar_visits(query_embedding, stored_embeddings, top_k,
\* min_similarity) runs and returns.
RankCall ==
    /\ rank.pc = "called"
    /\ rank' = [rank EXCEPT
          !.pc = "returned",
          !.result = find_similar_visits(rank.query, rank.stored, rank.top_k,
                                         rank.num, rank.den)]
    /\ UNCHANGED <<phase, indexes, provider, patients, visits, doctors, reqs, seed, canon, admins>>

NextRank == RankCall

SpecRank == InitRank /\ [][NextRank]_vars

\* ---------------------------------------------------------------------
\* Properties
\* ---------------------------------------------------------------------
Stored(id) == \E i \in 1..Len(visits) : visits[i].id = id
EmbeddingOf(id) == visits[CHOOSE i \in 1..Len(visits) : visits[i].id = id].embedding
EmbedFailures == {"embed_failed", "patch_failed"}
Tokens(text) == {text[i] : i \in 1..Len(text)}

\* C1: an error response of create_visit implies that the call stored no
\* visit; once the visit is inserted no later step (embedding, patch,
\* doctor counter update) turns the outcome into an error.
C1_ErrorImpliesNothingStored ==
    \A r \in Requests :
        (reqs[r].kind = "visit" /\ reqs[r].result = "error500") => ~Stored(r)

\* C2: when the embed call or the embedding patch raised, a create_visit
\* whose insert succeeded still returns success, the visit stays stored and
\* it has no embedding.
C2_EmbeddingFailureStillSucceeds ==
    \A r \in Requests :
        (reqs[r].kind = "visit" /\ reqs[r].pc = "done"
            /\ reqs[r].embedStep \in EmbedFailures)
        => (reqs[r].result = "ok" /\ Stored(r) /\ EmbeddingOf(r) = NoEmbedding)

\* C3: every inserted visit gets one embedding attempt in the same request,
\* whatever its optional fields; when neither the embed call nor the patch
\* raised, the visit ends the request with its embedding present.
C3_EveryVisitAttempted ==
    \A r \in Requests :
        (reqs[r].kind = "visit" /\ Stored(r) /\ reqs[r].pc \in {"inc_doctor", "done"})
        => /\ reqs[r].embedStep \in EmbedFailures \cup {"written"}
           /\ reqs[r].embedStep \notin EmbedFailures => EmbeddingOf(r) # NoEmbedding

\* The step taken is the patch of the request (or seed run) that inserted id.
OwnerPatches(id) ==
    \/ \E r \in Requests : /\ reqs[r].visitId = id /\ reqs[r].pc = "patch"
                           /\ reqs'[r].embedStep = "written"
    \/ /\ seed.visitId = id /\ seed.pc = "patch" /\ seed'.embedStep = "written"

\* C4: the embedding is write-once: a visit is inserted with the embedding
\* absent, it goes from absent to present only in the patch step of the
\* request or seed run that inserted it, and a present embedding is never
\* changed or removed by any step.
C4_WriteOnce ==
    [][ /\ Len(visits') >= Len(visits)
        /\ \A i \in 1..Len(visits') :
              IF i > Len(visits)
              THEN visits'[i].embedding = NoEmbedding
              ELSE /\ visits'[i].id = visits[i].id
                   /\ visits[i].embedding # NoEmbedding
                        => visits'[i].embedding = visits[i].embedding
                   /\ (visits[i].embedding = NoEmbedding
                        /\ visits'[i].embedding # NoEmbedding)
                        => OwnerPatches(visits[i].id) ]_vars

\* A seeded visit and a visit of the same patient created through the API
\* both carry the embedding their own run wrote.
C4_Witness ==
    /\ seed.pc = "done" /\ seed.embedStep = "written"
    /\ reqs[1].kind = "visit" /\ reqs[1].pc = "done" /\ reqs[1].embedStep = "written"
    /\ Stored(seed.visitId) /\ Stored(1)
    /\ EmbeddingOf(seed.visitId) # NoEmbedding
    /\ EmbeddingOf(1) # EmbeddingOf(seed.visitId)
    /\ \A i, j \in 1..Len(visits) : visits[i].patientId = visits[j].patientId

\* C5: no retry: a visit whose embed call or patch failed stays stored with
\* its embedding absent in every later state, whatever runs afterwards.
C5_FailedStaysAbsent ==
    \A r \in Requests :
        reqs[r].embedStep \in EmbedFailures
        => (Stored(r) /\ EmbeddingOf(r) = NoEmbedding)

\* A visit whose embedding failed, followed by a later visit that did get
\* its embedding written.
C5_Witness ==
    \E r1, r2 \in Requests :
        /\ r1 < r2
        /\ reqs[r1].pc = "done" /\ reqs[r1].embedStep \in EmbedFailures
        /\ reqs[r2].pc = "done" /\ reqs[r2].embedStep = "written"
        /\ EmbeddingOf(r2) # NoEmbedding

\* C6: a free-text query always returns a well-formed response and never an
\* error, also when the provider fails and when the store fails on the
\* corpus read.
C6_ChatNeverErrors ==
    \A r \in Requests :
        (reqs[r].kind = "chat" /\ reqs[r].pc = "done") => reqs[r].result = "ok"

\* C7: after a failed initialize() the application serves requests; while
\* the provider is uninitialized every visit created is stored without an
\* embedding and every query returns the no-similar-cases result.
C7_UninitializedProvider ==
    (phase = "serving" /\ Uninitialized(provider))
    => \A r \in Requests :
          /\ (reqs[r].kind = "visit" /\ Stored(r)) => EmbeddingOf(r) = NoEmbedding
          /\ (reqs[r].kind = "chat" /\ reqs[r].pc = "done") => NoSimilarCases(reqs[r])

\* C8: the prescribed medications never influence the embedded text: no
\* token of the clinical text comes from them, and two visits that differ
\* only in the prescribed medications hand the same text to the provider.
C8_MedicationsExcluded ==
    /\ canon.pc \in {"clinical", "done"}
         => /\ "Prescribed medications: " \notin Tokens(canon.clinical)
            /\ Truthy(canon.visit.prescribedMedications)
                 => canon.visit.prescribedMedications \notin Tokens(canon.clinical)
    /\ canon.pc = "done" => canon.combined = canon.otherCombined

\* Two visits with different, non-empty medications were canonicalised.
C8_Witness ==
    /\ canon.pc = "done"
    /\ Truthy(canon.visit.prescribedMedications)
    /\ Truthy(canon.otherMedications)
    /\ canon.otherMedications # canon.visit.prescribedMedications
    /\ canon.visit.hasVitals /\ Truthy(canon.visit.doctorNoticed)

\* The patient record a request's visit is linked to, as patient_data.
PatientData(r) ==
    LET T(p) == p.id = reqs[r].patientId
        p == SelectSeq(patients, T)[1]
    IN [given |-> TRUE, hasAge |-> TRUE, age |-> p.age, gender |-> p.gender]

\* C9: the text handed to the provider for a new visit is the demographics
\* text of the visit's patient under the first framing phrase, the same
\* demographics text under the second framing phrase, then the clinical
\* text once.
C9_DemographicsTwiceClinicalOnce ==
    \A r \in Requests :
        reqs[r].text # <<>>
        => LET demographics ==
                   create_clinical_text_with_demographics(EmptyVisit, PatientData(r))
           IN reqs[r].text =
                 <<"Age and other patient information: ">> \o demographics \o <<". ">>
                 \o <<"Patient characteristics include: ">> \o demographics \o <<". ">>
                 \o create_clinical_text(visit_dict(reqs[r].form))

\* The segments the canonical text is to contain: a segment only for a
\* field that is present and non-empty.
ExpectedClinicalText(v) ==
    Join(  Opt(Truthy(v.gender), Part("Gender: ", v.gender))
        \o Opt(Truthy(v.age), Part("Age: ", v.age))
        \o Opt(v.hasVitals /\ Truthy(v.bloodPressure),
               Part("Blood pressure: ", v.bloodPressure))
        \o Opt(v.hasVitals /\ Truthy(v.oxygen), Part("Oxygen level: ", v.oxygen))
        \o Opt(v.hasVitals /\ Truthy(v.weight), Part("Weight: ", v.weight))
        \o Opt(Truthy(v.clinicalTests), Part("Clinical tests: ", v.clinicalTests))
        \o Opt(Truthy(v.doctorNoticed), Part("Doctor observations: ", v.doctorNoticed))
        \o Opt(v.hasVitals /\ v.hasDidRecover,
               Part("Patient status: ",
                    IF v.didRecover THEN "recovered" ELSE "in treatment")) )

\* C10: create_clinical_text renders gender, age, blood pressure, oxygen
\* level, weight, clinical tests, doctor observations and recovery status in
\* this order, each segment only if its field is present and non-empty, and
\* an entirely empty visit yields the empty text.
C10_SegmentsOnlyWhenNonEmpty ==
    canon.pc \in {"clinical", "done"}
    => canon.clinical = ExpectedClinicalText(canon.visit)

\* The age group the specification gives an age.
ClaimedAgeGroup(a) ==
    IF a < 18 THEN "pediatric" ELSE IF a < 65 THEN "adult" ELSE "elderly"

AgeGroupPositions(text) == {i \in 1..Len(text) : text[i] = "Age group: "}

\* C11: for every integer patient age (0 included) the demographics text
\* has exactly one age-group segment, and it names pediatric below 18,
\* adult from 18 to 64 and elderly from 65 on.
C11_OneAgeGroupSegment ==
    (canon.pc = "demographics" /\ canon.patient.given /\ canon.patient.hasAge)
    => /\ Cardinality(AgeGroupPositions(canon.demographics)) = 1
       /\ \A i \in AgeGroupPositions(canon.demographics) :
             /\ i < Len(canon.demographics)
             /\ canon.demographics[i + 1] = ClaimedAgeGroup(canon.patient.age)

\* The cosine score of a stored vector s for the query q, compared exactly:
\* x -> sign(x) * x^2 is increasing, so scores and thresholds are compared
\* through their signed squares.  A zero norm gives the score 0.
Sgn(x) == IF x > 0 THEN 1 ELSE IF x < 0 THEN 0 - 1 ELSE 0
SignedSquareNum(q, s) ==
    IF Norm2(q) * Norm2(s) = 0 THEN 0 ELSE Sgn(Dot(q, s)) * Dot(q, s) * Dot(q, s)
SignedSquareDen(q, s) ==
    IF Norm2(q) * Norm2(s) = 0 THEN 1 ELSE Norm2(q) * Norm2(s)
ScoreGreater(q, s, t) ==
    SignedSquareNum(q, s) * SignedSquareDen(q, t)
        > SignedSquareNum(q, t) * SignedSquareDen(q, s)
ScoreEqual(q, s, t) == ~ScoreGreater(q, s, t) /\ ~ScoreGreater(q, t, s)
ScoreAtLeast(q, s, num, den) ==
    SignedSquareNum(q, s) * den * den
        >= Sgn(num) * num * num * SignedSquareDen(q, s)

RankReturned == rank.pc = "returned"
RankEligible ==
    {i \in 1..Len(rank.stored) :
        ScoreAtLeast(rank.query, rank.stored[i].embedding, rank.num, rank.den)}
RankReturnedIds == {rank.result[i].visit_id : i \in 1..Len(rank.result)}

\* C12: the returned items are in descending order of score, and two
\* returned items of equal score keep their corpus order.
C12_DescendingStable ==
    RankReturned
    => \A i, j \in 1..Len(rank.result) :
          i < j
          => /\ ~ScoreGreater(rank.query, rank.result[j].embedding,
                              rank.result[i].embedding)
             /\ ScoreEqual(rank.query, rank.result[i].embedding,
                           rank.result[j].embedding)
                  => rank.result[i].visit_id < rank.result[j].visit_id

\* Two items of equal score were returned after an item that comes later
\* in the corpus.
C12_Witness ==
    /\ RankReturned
    /\ Len(rank.result) = 3
    /\ rank.result[1].visit_id = 3
    /\ ScoreGreater(rank.query, rank.result[1].embedding, rank.result[2].embedding)
    /\ ScoreEqual(rank.query, rank.result[2].embedding, rank.result[3].embedding)

\* C13: for top_k >= 0 the result is the first top_k of the eligible
\* items: at most top_k entries, all of them distinct eligible corpus
\* items, as many as top_k allows, and no eligible item left out scores
\* strictly higher than a returned one.
C13_TopK ==
    RankReturned
    => /\ Len(rank.result) <= rank.top_k
       /\ Cardinality(RankReturnedIds) = Len(rank.result)
       /\ RankReturnedIds \subseteq RankEligible
       /\ \A i \in 1..Len(rank.result) :
             rank.result[i] = rank.stored[rank.result[i].visit_id]
       /\ Len(rank.result) < rank.top_k => RankReturnedIds = RankEligible
       /\ \A e \in RankEligible \ RankReturnedIds, x \in RankReturnedIds :
             ~ScoreGreater(rank.query, rank.stored[e].embedding,
                           rank.stored[x].embedding)

\* Scores 0.8, 0.6, 1.0 with top_k 2 and min_similarity 0.7 gave the third
\* item, then the first.
C13_Witness ==
    /\ RankReturned
    /\ rank.query = <<1, 0>>
    /\ Len(rank.stored) = 3
    /\ rank.stored[1].embedding = <<4, 3>>
    /\ rank.stored[2].embedding = <<3, 4>>
    /\ rank.stored[3].embedding = <<1, 0>>
    /\ rank.top_k = 2 /\ rank.num = 7 /\ rank.den = 10
    /\ Len(rank.result) = 2
    /\ rank.result[1].visit_id = 3 /\ rank.result[2].visit_id = 1

\* C14: an item is eligible exactly when its score is >= min_similarity:
\* no returned item scores below it, and an item that scores at least it
\* (equality included) is returned unless top_k items were returned.
C14_ThresholdInclusive ==
    RankReturned
    => /\ \A i \in 1..Len(rank.result) :
             ScoreAtLeast(rank.query, rank.result[i].embedding, rank.num, rank.den)
       /\ \A i \in 1..Len(rank.stored) :
             ScoreAtLeast(rank.query, rank.stored[i].embedding, rank.num, rank.den)
             => \/ i \in RankReturnedIds
                \/ Len(rank.result) = rank.top_k

\* An item whose score is 0.6 was returned for min_similarity 0.6.
C14_Witness ==
    /\ RankReturned
    /\ rank.query = <<1, 0>> /\ rank.num = 3 /\ rank.den = 5
    /\ \E i \in 1..Len(rank.result) : rank.result[i].embedding = <<3, 4>>

\* C15: on an empty corpus, and on a corpus whose every item scores below
\* min_similarity, the call returns the empty sequence.
C15_NothingEligibleGivesEmpty ==
    (rank.pc = "returned" /\ RankEligible = {}) => rank.result = <<>>

\* A call with top_k > 0 returned from a corpus of items that all score
\* below min_similarity.
C15_Witness ==
    /\ rank.pc = "returned" /\ rank.result = <<>>
    /\ Len(rank.stored) = MaxCorpus /\ rank.top_k > 0
    /\ Norm2(rank.query) > 0
    /\ RankEligible = {}

\* The ids of the visits whose embedding is present, in store order.
EmbeddedIds ==
    LET Present(v) == v.embedding # NoEmbedding
        present == SelectSeq(visits, Present)
    IN [i \in 1..Len(present) |-> present[i].id]

VisitById(id) == visits[CHOOSE i \in 1..Len(visits) : visits[i].id = id]
PatientById(id) == patients[CHOOSE i \in 1..Len(patients) : patients[i].id = id]
Ids(seq) == {seq[i] : i \in 1..Len(seq)}
ChatAnswered(r) ==
    reqs[r].kind = "chat" /\ reqs[r].pc = "done" /\ reqs[r].result = "ok"

\* C16: the corpus a query ranks is every visit, of whatever doctor, whose
\* embedding is present when the corpus is read, and nothing else: a
\* returned case is a visit whose embedding was present at the read.
C16_CorpusIsEveryEmbeddedVisit ==
    [][ \A r \in Requests :
          (reqs[r].kind = "idle" /\ reqs'[r].kind = "chat"
             /\ reqs'[r].result = "ok")
          => /\ reqs'[r].corpus = EmbeddedIds
             /\ \A i \in 1..Len(reqs'[r].cases) :
                   /\ reqs'[r].cases[i].visit_id \in Ids(EmbeddedIds)
                   /\ reqs'[r].cases[i].embedding
                        = VisitById(reqs'[r].cases[i].visit_id).embedding ]_vars

\* A doctor's query returned another doctor's visit while a visit that now
\* has its embedding was left out, its embedding being absent at the read.
C16_Witness ==
    \E r \in Requests :
        /\ ChatAnswered(r)
        /\ \E i \in 1..Len(reqs[r].cases) :
              VisitById(reqs[r].cases[i].visit_id).doctorId # reqs[r].doctor
        /\ \E j \in 1..Len(visits) :
              /\ visits[j].embedding # NoEmbedding
              /\ visits[j].id \notin Ids(reqs[r].corpus)

C18_FixedMessageIffEmpty ==
    \A r \in Requests :
        ChatAnswered(r)
        => /\ reqs[r].cases = <<>>
                => /\ reqs[r].body.response = NoSimilarCasesMessage
                   /\ reqs[r].body.similar_cases = <<>>
           /\ reqs[r].body.similar_cases = <<>>
                <=> reqs[r].body.response = NoSimilarCasesMessage

\* A query over a non-empty corpus got the fixed message and the empty
\* list because the ranking returned nothing.
C18_Witness ==
    \E r \in Requests :
        /\ ChatAnswered(r)
        /\ reqs[r].corpus # <<>> /\ reqs[r].cases = <<>>
        /\ reqs[r].body.response = NoSimilarCasesMessage
        /\ reqs[r].body.similar_cases = <<>>

VisitAnswered(r) ==
    reqs[r].kind = "visit" /\ reqs[r].pc = "done" /\ reqs[r].result = "ok"

\* Two successful create_visit calls return the same message and keys.
C19_SameMessage ==
    \A r, t \in Requests :
        (VisitAnswered(r) /\ VisitAnswered(t))
        => /\ reqs[r].body.message = reqs[t].body.message
           /\ DOMAIN reqs[r].body = DOMAIN reqs[t].body

\* Once the visit is inserted the answer is a success exactly when the
\* doctor's counter was updated, and the success body is the fixed message
\* with the visit's and the patient's id.
C19_ResponseStep ==
    \A r \in Requests :
        (reqs[r].kind = "visit" /\ reqs[r].pc = "inc_doctor"
           /\ reqs'[r].pc = "done")
        => /\ reqs'[r].result = (IF doctors' # doctors THEN "ok" ELSE "error500")
           /\ reqs'[r].result = "ok"
                => reqs'[r].body =
                     [ message |-> "Visit created successfully",
                       visit_id |-> ToString(reqs[r].visitId),
                       patient_id |-> ToString(reqs[r].patientId) ]

\* C19: the create_visit response is the same whether the embedding was
\* written, skipped or failed: same message and keys in every state, and
\* at the answering step the status follows the counter update alone.
C19_ResponseHidesEmbedding == []C19_SameMessage /\ [][C19_ResponseStep]_vars

\* Two calls succeeded, one whose embedding was written and one whose
\* embed call or patch raised.
C19_Witness ==
    \E r, t \in Requests :
        /\ VisitAnswered(r) /\ VisitAnswered(t)
        /\ reqs[r].embedStep = "written"
        /\ reqs[t].embedStep \in EmbedFailures
        /\ EmbeddingOf(r) # NoEmbedding /\ EmbeddingOf(t) = NoEmbedding

\* Every stored embedding has the provider's dimension D.
C20_StoredHaveDimension ==
    \A i \in 1..Len(visits) :
        visits[i].embedding # NoEmbedding
        => Len(visits[i].embedding) = EmbeddingDimension

\* A write of an embedding stores, unmodified, the vector that the writing
\* request's or seed run's own embed call returned.
C20_WriteStep ==
    \A i \in 1..Len(visits) :
        (Len(visits') >= i /\ visits'[i].embedding # visits[i].embedding)
        => \/ \E r \in Requests :
                /\ reqs[r].pc = "patch" /\ reqs[r].visitId = visits[i].id
                /\ reqs[r].embedding \in Vectors
                /\ visits'[i].embedding = reqs[r].embedding
           \/ /\ seed.pc = "patch" /\ seed.visitId = visits[i].id
              /\ seed.embedding \in Vectors
              /\ visits'[i].embedding = seed.embedding

\* C20: in every state each stored embedding has dimension D, and each
\* step that writes an embedding stores its writer's embed result as is.
C20_OneDimension == []C20_StoredHaveDimension /\ [][C20_WriteStep]_vars

\* The seeding script and a create_visit call have each stored an
\* embedding, and the two vectors differ.
C20_Witness ==
    \E i, j \in 1..Len(visits) :
        /\ visits[i].id < 0 /\ visits[j].id > 0
        /\ visits[i].embedding # NoEmbedding
        /\ visits[j].embedding # NoEmbedding
        /\ visits[i].embedding # visits[j].embedding

RankZeroNorm ==
    {i \in 1..Len(rank.stored) :
        Norm2(rank.query) = 0 \/ Norm2(rank.stored[i].embedding) = 0}

RECURSIVE IsSubsequence(_, _)
\* a is b with some items left out.
IsSubsequence(a, b) ==
    IF a = <<>> THEN TRUE
    ELSE IF b = <<>> THEN FALSE
    ELSE IF Head(a) = Head(b) THEN IsSubsequence(Tail(a), Tail(b))
    ELSE IsSubsequence(a, Tail(b))

\* C22: a pair with a zero-norm vector scores 0 and raises nothing: such an
\* item is returned only if min_similarity <= 0, and then unless top_k cut
\* it off; the other items are ranked as they are without it: each of them
\* that is eligible is returned unless top_k cut it off, in the order
\* they have in the ranking of the corpus without the zero-norm items.
C22_ZeroNormScoresZero ==
    RankReturned
    => LET NonZero(e) == e.visit_id \notin RankZeroNorm
           others == SelectSeq(rank.stored, NonZero)
       IN /\ \A i \in RankZeroNorm :
                /\ i \in RankReturnedIds => rank.num <= 0
                /\ (rank.num <= 0 /\ Len(rank.result) < rank.top_k)
                     => i \in RankReturnedIds
          /\ \A i \in RankEligible \ RankZeroNorm :
                i \in RankReturnedIds \/ Len(rank.result) = rank.top_k
          /\ IsSubsequence(SelectSeq(rank.result, NonZero),
                           find_similar_visits(rank.query, others, Len(others),
                                               rank.num, rank.den))

\* With min_similarity 0 a zero vector was returned after an item of
\* positive score and before nothing else was cut off.
C22_Witness ==
    /\ RankReturned
    /\ rank.num = 0
    /\ Norm2(rank.query) > 0
    /\ Len(rank.result) = 2 /\ rank.top_k = MaxTopK
    /\ rank.stored[1].embedding = <<0, 0>>
    /\ rank.result[2].visit_id = 1
    /\ ScoreGreater(rank.query, rank.result[1].embedding, <<0, 0>>)

\* ---------------------------------------------------------------------
\* C26: a corpus with an embedding of another length empties the query
\* ---------------------------------------------------------------------
\* The visits of a chat's corpus whose embedding has not the length of the
\* query vector.
OtherLengthIds(r) ==
    {i \in Ids(reqs[r].corpus) : Len(EmbeddingOf(i)) # Len(reqs[r].embedding)}

\* C26: a chat whose query was embedded and whose corpus holds at least
\* one stored embedding of another length gets an empty list from
\* find_similar_visits and answers with the no-similar-cases message and
\* no cases, whatever the other stored visits would score.
C26_MismatchEmptiesQuery ==
    \A r \in Requests :
        (ChatAnswered(r) /\ reqs[r].embedding # NoEmbedding
            /\ OtherLengthIds(r) # {})
        => /\ reqs[r].cases = <<>>
           /\ reqs[r].body.response = NoSimilarCasesMessage
           /\ reqs[r].body.similar_cases = <<>>

\* A chat answered with the fixed message although another visit of its
\* corpus has the query's length and scores above the default threshold.
C26_Witness ==
    \E r \in Requests :
        /\ ChatAnswered(r) /\ reqs[r].embedding # NoEmbedding
        /\ OtherLengthIds(r) # {}
        /\ reqs[r].body.response = NoSimilarCasesMessage
        /\ \E i \in Ids(reqs[r].corpus) \ OtherLengthIds(r) :
              ScoreAtLeast(reqs[r].embedding, EmbeddingOf(i),
                           DefaultMinNum, DefaultMinDen)

\* ---------------------------------------------------------------------
\* C23, C24: the admin accounts
\* ---------------------------------------------------------------------
SetupInserted == {r \in Requests : reqs[r].kind = "setup" /\ reqs[r].inserted}

\* C23: a setup call that counts at least one stored admin is rejected with
\* 400 and inserts nothing, and whatever the interleaving of the setup
\* calls at most one admin has been inserted through the endpoint, a super
\* admin.
C23_OnlyFirstSetupInserts ==
    /\ \A r \in Requests :
          (reqs[r].kind = "setup" /\ reqs[r].admin_count > 0)
          => reqs[r].result = "error400" /\ ~reqs[r].inserted
    /\ Cardinality(SetupInserted) <= 1
    /\ \A r \in SetupInserted :
          \E i \in 1..Len(admins) : admins[i].id = r /\ admins[i].isSuperAdmin

\* The stored admin record of the caller of request r, if any.
CallerIsStoredSuperAdmin(r) ==
    \E i \in 1..Len(admins) :
        admins[i].phone = reqs[r].caller /\ admins[i].isSuperAdmin

\* C24: a create_admin call that counts at least one admin is rejected with
\* 403, without an insert, exactly when the caller's stored admin record
\* is not that of a super admin; a super admin naming an unused phone gets
\* the admin inserted unless the store fails.
C24_SuperAdminMayCreate ==
    \A r \in Requests :
        (reqs[r].kind = "create_admin" /\ reqs[r].pc = "done"
            /\ reqs[r].admin_count > 0)
        => /\ (reqs[r].result = "error403") <=> ~CallerIsStoredSuperAdmin(r)
           /\ reqs[r].result = "error403" => ~reqs[r].inserted
           /\ reqs[r].result = "ok" => reqs[r].inserted

\* ---------------------------------------------------------------------
\* C25: one patient per phone
\* ---------------------------------------------------------------------
\* C25: whatever the interleaving of create_or_get_patient and create_visit
\* calls, no two patient records share a phone, the patient a call holds is
\* a stored record of the phone it named, and every stored visit is linked
\* to a stored patient.
C25_OnePatientPerPhone ==
    /\ NoDuplicatePhones
    /\ \A r \in Requests :
          reqs[r].patientId # 0
          => \E i \in 1..Len(patients) :
                /\ patients[i].id = reqs[r].patientId
                /\ patients[i].phone = reqs[r].form.patientPhone
    /\ \A i \in 1..Len(visits) :
          \E j \in 1..Len(patients) : patients[j].id = visits[i].patientId

\* ---------------------------------------------------------------------
\* C27: the doctor's visit counter
\* ---------------------------------------------------------------------
SuccessfulVisits(d) ==
    {r \in Requests : reqs[r].kind = "visit" /\ reqs[r].doctor = d
                        /\ reqs[r].result = "ok"}
StoredVisitsOf(d) == {i \in 1..Len(visits) : visits[i].doctorId = d}
NoRequestInFlight == \A r \in Requests : reqs[r].pc \in {"idle", "done"}

TotalPatientsCounts ==
    \A d \in Doctors :
        /\ doctors[d].totalPatients = Cardinality(SuccessfulVisits(d))
        /\ NoRequestInFlight
             => doctors[d].totalPatients = Cardinality(StoredVisitsOf(d))

TotalPatientsGrows ==
    \A d \in Doctors : doctors'[d].totalPatients >= doctors[d].totalPatients

\* C27: a doctor's totalPatients equals the number of that doctor's
\* create_visit calls that returned success, whatever the embedding
\* outcome and also for repeat visits of a patient; no step decreases it;
\* and once no call is in flight it equals the number of visits stored
\* for that doctor.
C27_TotalPatientsIsVisitCount ==
    []TotalPatientsCounts /\ [][TotalPatientsGrows]_vars

\* ---------------------------------------------------------------------
\* C28: a visit for a known phone leaves the patient record alone
\* ---------------------------------------------------------------------
\* The patient stored for the phone before the calls.
KnownPatient(phone) ==
    \E i \in 1..Len(patients) :
        patients[i].phone = phone /\ patients[i].id \notin Requests

\* The visit of a call for a known phone is linked to a patient of that
\* phone which the call did not insert; a query shows for every case the
\* age and gender of the patient record the visit is linked to.
RepeatVisitLinked ==
    /\ \A r \in Requests :
          (reqs[r].kind = "visit" /\ reqs[r].inserted
              /\ KnownPatient(reqs[r].form.patientPhone))
          => LET patient == PatientById(VisitById(r).patientId)
             IN /\ patient.phone = reqs[r].form.patientPhone
                /\ patient.id # r
    /\ \A r \in Requests :
          ChatAnswered(r)
          => \A i \in 1..Len(reqs[r].body.similar_cases) :
                LET shown == reqs[r].body.similar_cases[i]
                    patient == PatientById(
                                  VisitById(reqs[r].cases[i].visit_id).patientId)
                IN /\ shown.patient_age = patient.age
                   /\ shown.patient_gender = patient.gender

\* No step changes a stored patient record.
PatientsKept ==
    /\ Len(patients') >= Len(patients)
    /\ \A i \in 1..Len(patients) : patients'[i] = patients[i]

\* C28: a create_visit for a phone that matches a stored patient links
\* the new visit to that patient and leaves the stored patient record as
\* it was, also when the request carries another age and gender; the age
\* and gender a query shows for the visit are those of the stored record.
C28_KnownPatientKept ==
    []RepeatVisitLinked /\ [][PatientsKept]_vars

\* A query shows, for the visit sent with age 46 and gender Female, the
\* stored age 45 and gender Male.
C28_Witness ==
    \E r, c \in Requests :
        /\ reqs[r].kind = "visit" /\ reqs[r].form = FormChanged
        /\ ChatAnswered(c)
        /\ \E i \in 1..Len(reqs[c].cases) :
              /\ reqs[c].cases[i].visit_id = r
              /\ reqs[c].body.similar_cases[i].patient_age = FormA.patientAge
              /\ reqs[c].body.similar_cases[i].patient_gender = FormA.patientGender
        /\ PatientsByPhone(FormA.patientPhone) = <<StoredPatient(11, FormA)>>

\* ---------------------------------------------------------------------
\* C29: a blocked doctor is kept out
\* ---------------------------------------------------------------------
DoctorOnlyKinds == {"profile", "patient", "visit", "list_visits", "chat"}

\* The doctor a request acts for: the owner of the token, or for a login
\* the doctor whose phone and password were given.
ActsFor(req) == IF req.kind = "login" THEN req.caller ELSE req.doctor

\* A login or doctor-only request that is authenticated while the doctor's
\* flag is true ends there with 403.
BlockedIsRejected ==
    \A r \in Requests :
        (reqs[r].kind = "idle"
            /\ reqs'[r].kind \in DoctorOnlyKinds \cup {"login"}
            /\ ActsFor(reqs'[r]) \in Doctors
            /\ doctors[ActsFor(reqs'[r])].isBlocked)
        => reqs'[r].pc = "done" /\ reqs'[r].result = "error403"

\* A rejected request has written nothing: no patient, no visit, no
\* embedding, no counter update.
RejectedWroteNothing ==
    \A r \in Requests :
        reqs[r].result = "error403"
        => /\ ~reqs[r].inserted /\ reqs[r].patientId = 0
           /\ reqs[r].embedStep = "none"
           /\ \A i \in 1..Len(visits) : visits[i].id # r
           /\ \A i \in 1..Len(patients) : patients[i].id # r

SuccessfulToggles(d) ==
    {r \in Requests : reqs[r].kind = "toggle" /\ reqs[r].doctor = d
                        /\ reqs[r].result = "ok"}

\* The flag, false when the doctor was created, is true exactly after an
\* odd number of successful toggle calls.
ToggleParity ==
    \A d \in Doctors :
        doctors[d].isBlocked = (Cardinality(SuccessfulToggles(d)) % 2 = 1)

\* The isBlocked a call returns is the value its write stored.
ToggleReturnsWritten ==
    \A r \in Requests :
        (reqs[r].pc = "toggle_write" /\ reqs'[r].result = "ok")
        => reqs'[r].body.isBlocked = doctors'[reqs[r].doctor].isBlocked

\* C30: after n successful toggle_doctor_block_status calls for a doctor,
\* however they interleave, the stored isBlocked is the initial value for
\* even n and its negation for odd n, and each call returns the value its
\* own write stored.
C30_EachToggleFlips ==
    []ToggleParity /\ [][ToggleReturnsWritten]_vars

====
